---- MODULE Spec2Model ----
(***************************************************************************)
(* Model of the Panoptis audit pipeline orchestrator                       *)
(* (Siteuhweb/lib/audit-runner.ts) and of the privileged execution channel *)
(* (privileged scan service and client).                                   *)
(*                                                                         *)
(* Scheduling model of the orchestrator.  The exported operations are      *)
(* called from HTTP route handlers and the child-process events come from  *)
(* the event loop, so each of them runs as one macrotask.  Every await of  *)
(* runAuditPipeline except the one on executeCommand's promise is settled  *)
(* by microtasks only (prepareStage does synchronous file-system work),    *)
(* and microtasks and process.nextTick callbacks drain before the next     *)
(* macrotask.  One action of the model is therefore one macrotask together *)
(* with the whole microtask chain it triggers: the pipeline runs from one  *)
(* child event up to the next spawn, or up to the end of its unwinding.    *)
(***************************************************************************)
EXTENDS Integers, Sequences, FiniteSets, TLC

\* ---------------------------------------------------------------- bounds
\* macrotasks handled in one behaviour, output chunks among them, clock range
MaxSteps == 6
MaxOutput == 1
MaxNow == 3
\* symbols a client sends on one connection of the service
MaxInput == 3
\* event records waiting on the client's socket when it starts to read
MaxWire == 3
\* appendLog calls of one run, in the specification of the log alone
MaxAppends == 202
\* log arrays allocated, and snapshots handed out, in the heap specification
MaxArrays == 5
MaxSnapshots == 2
\* lines of one output chunk, and chunks delivered, in the specification of
\* the output handlers
MaxLines == 2
MaxChunks == 2
\* event records of one response stream, and the places where the stream is
\* cut into socket chunks
MaxRecords == 2
MaxCuts == 2
\* calls of startAudit() and stopAudit() in the specification with fairness
MaxCalls == 3

\* ------------------------------------------------------- program constants
MAX_LOG_ENTRIES == 200

\* weight is kept in hundredths (0.5 -> 50) so that the arithmetic is integral;
\* wrappable: the command is built by buildStageCommand, which wraps it in the
\* privileged client when the client script is installed
stageMetaUnbalanced ==
  << [id |-> "network", weight |-> 50, etaSeconds |-> 900, wrappable |-> TRUE],
     [id |-> "linux",   weight |-> 25, etaSeconds |-> 480, wrappable |-> FALSE],
     [id |-> "windows", weight |-> 25 - 5, etaSeconds |-> 600, wrappable |-> TRUE] >>

stageMeta ==
  << [id |-> "network", weight |-> 50, etaSeconds |-> 900, wrappable |-> TRUE],
     [id |-> "linux",   weight |-> 25, etaSeconds |-> 480, wrappable |-> FALSE],
     [id |-> "windows", weight |-> 25, etaSeconds |-> 600, wrappable |-> TRUE] >>

NumStages == Len(stageMeta)

\* exit codes a 'close' event can carry: a number, or null (ended by a signal)
ExitCodes == {"0", "3", "null"}

\* outcomes of prepareStage for the linux stage
PrepOutcomes == {"ok", "credentialsCreated", "fail"}

\* output chunks of a child, already split on /\r?\n/ ; "" and " " are blank
Chunks == { <<"", "b ", " ", "a">> }

VARIABLES
  jobState,         \* runnerState().jobState
  stopRequested,    \* runnerState().stopRequested
  activeProcess,    \* runnerState().activeProcess : 0 (null) or a child
  pipelinePromise,  \* runnerState().pipelinePromise : 0 (null) or a pipeline
  pipelines,        \* the runAuditPipeline tasks started so far
  children,         \* the stage child processes spawned so far
  invalidations,    \* number of invalidateScanCache() calls
  now,              \* Date.now()
  op,               \* the operation run by the last step
  steps,            \* macrotasks handled so far
  returned,         \* the AuditStatus the last step's operation resolved with
  outputs,          \* output chunks delivered so far
  \* -- one stage command on the execution channel (client and service) --
  viaClient,        \* buildStageCommand wrapped the command in the client
  serviceUp,        \* the service listens on the socket path
  proc,             \* the process the orchestrator spawned for the stage
  client,           \* the privileged-scan-client program, when it is that process
  service,          \* the service's side of the client's connection
  wire,             \* event records written by the service, not yet read
  command,          \* the stage's command itself
  \* -- the service with several connections of arbitrary clients --
  conns,            \* per connection: the closure of the connection callback
  daemon,           \* the service process
  endpoint,         \* the socket file at socketPath
  \* -- the bytes of the response stream, as the client's socket delivers them --
  response,         \* the bytes the service wrote on the connection
  segments,         \* the socket chunks the client has not received yet
  clientBuffer,     \* forwardCommand's buffer
  \* -- the log as a list of entries, and as arrays on the heap --
  appended,         \* every entry appended since the last reset
  heap,             \* the arrays allocated for jobState.logs
  logsRef,          \* the array jobState.logs refers to
  handedOut         \* the log arrays returned in snapshots, with their contents then

orchVars == << jobState, stopRequested, activeProcess, pipelinePromise,
               pipelines, children, invalidations, now, op, steps, returned >>

chanVars == << viaClient, serviceUp, proc, client, service, wire, command >>

svcVars == << conns >>

lifeVars == << daemon, endpoint >>

segVars == << response, segments, clientBuffer >>

logVars == << appended, heap, logsRef, handedOut >>

vars == << orchVars, outputs, chanVars, svcVars, lifeVars, segVars, logVars >>

\* ------------------------------------------------------------- messages
\* An Error (or a log message's variable part) is a record of one shape.
NoError == [kind |-> "undefined", stage |-> "-", code |-> "-"]
NoDetail == [kind |-> "none", stage |-> "-", code |-> "-"]
Text(line) == [kind |-> "text", stage |-> "-", code |-> line]
StageFailure(id, code) == [kind |-> "stageFailed", stage |-> id, code |-> code]
SpawnFailure(id) == [kind |-> "spawnError", stage |-> id, code |-> "-"]
PrepareFailure(id) == [kind |-> "prepareError", stage |-> id, code |-> "-"]
AuditStopped == [kind |-> "AUDIT_STOPPED", stage |-> "-", code |-> "-"]

NoLastRun == [status |-> "none", startedAt |-> 0, finishedAt |-> 0,
              durationMs |-> 0, error |-> NoError]

LastRun(startedAt, finishedAt, status, error) ==
  [status |-> status, startedAt |-> startedAt, finishedAt |-> finishedAt,
   durationMs |-> finishedAt - startedAt, error |-> error]

\* ------------------------------------------------------------ appendLog
LastNKeepsOldest(s, n) == IF Len(s) <= n THEN s ELSE SubSeq(s, 1, n)

LastN(s, n) == IF Len(s) <= n THEN s ELSE SubSeq(s, Len(s) - n + 1, Len(s))

LogEntry(level, text, detail, stage, run) ==
  [level |-> level, text |-> text, detail |-> detail, stage |-> stage, run |-> run]

appendLog(js, level, text, detail, stage, run) ==
  [js EXCEPT !.logs =
     LastN(Append(@, LogEntry(level, text, detail, stage, run)), MAX_LOG_ENTRIES)]

trimNothing(line) == line

trim(line) == IF line = "b " THEN "b" ELSE IF line = " " THEN "" ELSE line

RECURSIVE bufferAndAppend(_, _, _, _, _)
bufferAndAppend(js, lines, level, stage, run) ==
  IF lines = << >> THEN js
  ELSE LET line == Head(lines)
           js1 == IF trim(line) = "" THEN js
                  ELSE appendLog(js, level, "line", Text(trim(line)), stage, run)
       IN bufferAndAppend(js1, Tail(lines), level, stage, run)

\* --------------------------------------------------------- runner state
\* The operators below work on a record S holding the mutable state the
\* pipeline code touches, so that one macrotask's chain can be composed.
Runner ==
  [js |-> jobState, stop |-> stopRequested, active |-> activeProcess,
   promise |-> pipelinePromise, pipes |-> pipelines, kids |-> children,
   inval |-> invalidations]

InitialJobState ==
  [status |-> "idle", stage |-> "null", startedAt |-> 0, stageStartedAt |-> 0,
   error |-> NoError, logs |-> << >>, lastRun |-> NoLastRun]

\* catch and finally of runAuditPipeline, for pipeline p rejected with err
UnwindLosesError(S, p, err) ==
  LET js1 == IF err = AuditStopped
             THEN [S.js EXCEPT !.status = "stopped"]
             ELSE appendLog([S.js EXCEPT !.status = "error", !.error = err],
                            "error", "Erreur lors de l'audit", err, "-", p)
      js2 == [js1 EXCEPT !.stage = "null", !.stageStartedAt = 0]
      js3 == IF js2.startedAt # 0
             THEN [js2 EXCEPT !.lastRun =
                     LastRun(js2.startedAt, now,
                             IF js2.status = "error" THEN "error" ELSE "stopped",
                             NoError)]
             ELSE js2
  IN [S EXCEPT !.js = js3, !.active = 0, !.stop = FALSE, !.promise = 0,
               !.pipes[p].pc = "done"]

Unwind(S, p, err) ==
  LET js0 == S.js
      js1 == IF err = AuditStopped
             THEN [js0 EXCEPT !.status = "stopped"]
             ELSE appendLog([js0 EXCEPT !.status = "error", !.error = err],
                            "error", "Erreur lors de l'audit", err, "-", p)
      js2 == [js1 EXCEPT !.stage = "null", !.stageStartedAt = 0]
      js3 == IF js2.startedAt # 0
             THEN [js2 EXCEPT !.lastRun =
                     LastRun(js2.startedAt, now,
                             IF js2.status = "error" THEN "error" ELSE "stopped",
                             js2.error)]
             ELSE js2
  IN [S EXCEPT !.js = js3, !.active = 0, !.stop = FALSE, !.promise = 0,
               !.pipes[p].pc = "done"]

\* the statements of runAuditPipeline after the for loop
CompleteKeepsPromise(S, p) ==
  LET js1 == [S.js EXCEPT !.status = "completed", !.stage = "null",
                          !.stageStartedAt = 0, !.error = NoError]
      js2 == IF js1.startedAt # 0
             THEN [js1 EXCEPT !.lastRun =
                     LastRun(js1.startedAt, now, "completed", NoError)]
             ELSE js1
      js3 == appendLog(js2, "success", "Tous les scans sont termines", NoDetail, "-", p)
  IN [S EXCEPT !.js = js3, !.inval = @ + 1, !.active = 0, !.stop = FALSE,
               !.pipes[p].pc = "done"]

Complete(S, p) ==
  LET js1 == [S.js EXCEPT !.status = "completed", !.stage = "null",
                          !.stageStartedAt = 0, !.error = NoError]
      js2 == IF js1.startedAt # 0
             THEN [js1 EXCEPT !.lastRun =
                     LastRun(js1.startedAt, now, "completed", NoError)]
             ELSE js1
      js3 == appendLog(js2, "success", "Tous les scans sont termines", NoDetail, "-", p)
  IN [S EXCEPT !.js = js3, !.inval = @ + 1, !.active = 0, !.stop = FALSE,
               !.promise = 0, !.pipes[p].pc = "done"]

\* prepareStage: only the linux stage prepares anything
prepareStage(S, p, i, prep) ==
  IF stageMeta[i].id # "linux" \/ prep = "ok" THEN S
  ELSE IF prep = "credentialsCreated"
  THEN [S EXCEPT !.js = appendLog(@, "error", "ssh_credentials.txt introuvable",
                                  NoDetail, "linux", p)]
  ELSE S

prepareFails(i, prep) == stageMeta[i].id = "linux" /\ prep = "fail"

\* runStage up to the await on executeCommand, and executeCommand's spawn.
\* A spawn that fails emits 'error' from process.nextTick: its handler and the
\* unwinding it causes run before any other macrotask.
runStage(S, p, i, spawnOk) ==
  LET id == stageMeta[i].id
      c == Len(S.kids) + 1
      js1 == appendLog([S.js EXCEPT !.stage = id, !.stageStartedAt = now],
                       "info", "Demarrage", NoDetail, id, p)
      kid == [pipeline |-> p, stage |-> i,
              st |-> IF spawnOk THEN "alive" ELSE "errored",
              promise |-> IF spawnOk THEN "pending" ELSE "failed",
              signalled |-> FALSE]
      S1 == [S EXCEPT !.js = js1, !.kids = Append(@, kid), !.active = c,
                      !.pipes[p] = [pc |-> "awaiting", stage |-> i, child |-> c]]
  IN IF spawnOk THEN S1
     ELSE Unwind([S1 EXCEPT !.active = 0], p, SpawnFailure(id))

\* one iteration of the for loop of runAuditPipeline, entered for stage i
PipelineLoopBackwards(S, p, i, prep, spawnOk) ==
  IF i > NumStages THEN Complete(S, p)
  ELSE IF S.stop THEN Unwind(S, p, AuditStopped)
  ELSE IF prepareFails(i, prep) THEN Unwind(S, p, PrepareFailure(stageMeta[i].id))
  ELSE runStage(prepareStage(S, p, i, prep), p, NumStages + 1 - i, spawnOk)

PipelineLoop(S, p, i, prep, spawnOk) ==
  IF i > NumStages THEN Complete(S, p)
  ELSE IF S.stop THEN Unwind(S, p, AuditStopped)
  ELSE IF prepareFails(i, prep) THEN Unwind(S, p, PrepareFailure(stageMeta[i].id))
  ELSE runStage(prepareStage(S, p, i, prep), p, i, spawnOk)

\* -------------------------------------------------------- getAuditStatus
\* Date.now() is in milliseconds.  The orchestrator's specification lets the
\* clock advance in steps of five minutes.
Clock == {1 + k * 300000 : k \in 0..(MaxNow - 1)}

Min(a, b) == IF a <= b THEN a ELSE b

Max(a, b) == IF a >= b THEN a ELSE b

\* (Date.now() - stageStartedAt), in milliseconds; 0 without a start time
elapsedMs(js, t) == IF js.stageStartedAt # 0 THEN t - js.stageStartedAt ELSE 0

\* stageOrder.indexOf(stage), 1-based
stageIndex(id) == CHOOSE k \in DOMAIN stageMeta : stageMeta[k].id = id

\* the sum of stageMeta[i].etaSeconds over the stages after the k-th
RECURSIVE etaAfter(_)
etaAfter(k) ==
  IF k >= NumStages THEN 0 ELSE stageMeta[k + 1].etaSeconds + etaAfter(k + 1)

\* computeEta at time t: whole seconds, or -1 for null
computeEtaActiveStageOnly(js, t) ==
  IF js.status # "running" \/ js.stage = "null" THEN -1
  ELSE LET k == stageIndex(js.stage)
           remainingMs == Max(stageMeta[k].etaSeconds * 1000 - elapsedMs(js, t), 0)
       IN (remainingMs + 999) \div 1000

computeEta(js, t) ==
  IF js.status # "running" \/ js.stage = "null" THEN -1
  ELSE LET k == stageIndex(js.stage)
           remainingMs == Max(stageMeta[k].etaSeconds * 1000 - elapsedMs(js, t), 0)
                            + etaAfter(k) * 1000
       IN (remainingMs + 999) \div 1000

\* the sum of the weights of the stages before the i-th
RECURSIVE weightBefore(_)
weightBefore(i) ==
  IF i <= 1 THEN 0 ELSE stageMeta[i - 1].weight + weightBefore(i - 1)

\* computeProgress at time t.  The result is the fraction num / den of one
\* hundredth: weights are hundredths, and elapsed / etaSeconds is kept exact.
computeProgressUncapped(js, t) ==
  IF js.status = "idle" THEN [num |-> 0, den |-> 1]
  ELSE IF js.status = "completed" THEN [num |-> 100, den |-> 1]
  ELSE IF js.stage = "null" THEN [num |-> 0, den |-> 1]
  ELSE LET i == stageIndex(js.stage)
           before == weightBefore(i)
           elapsed == elapsedMs(js, t)
           eta == stageMeta[i].etaSeconds * 1000
       IN [num |-> before * eta + Min(elapsed, eta) * stageMeta[i].weight, den |-> eta]

computeProgress(js, t) ==
  IF js.status = "idle" THEN [num |-> 0, den |-> 1]
  ELSE IF js.status = "completed" THEN [num |-> 100, den |-> 1]
  ELSE IF js.stage = "null" THEN [num |-> 0, den |-> 1]
  ELSE LET i == stageIndex(js.stage)
           before == weightBefore(i)
           elapsed == elapsedMs(js, t)
           eta == stageMeta[i].etaSeconds * 1000
           num == before * eta + Min(elapsed, eta) * stageMeta[i].weight
       IN IF num >= 99 * eta THEN [num |-> 99, den |-> 1]
          ELSE [num |-> num, den |-> eta]

\* Math.round of a non-negative fraction
MathRound(q) == (2 * q.num + q.den) \div (2 * q.den)

\* the AuditStatus object getAuditStatus() builds from a job state at time t
Snapshot(js, t) ==
  [status |-> js.status, stage |-> js.stage,
   progress |-> MathRound(computeProgress(js, t)),
   etaSeconds |-> computeEta(js, t),
   logs |-> js.logs,
   startedAt |-> js.startedAt, error |-> js.error,
   lastRun |-> js.lastRun]

\* getAuditStatus() reads the state and changes nothing
getAuditStatus == Snapshot(jobState, now)

\* no exported operation has returned in the last step
NoSnapshot ==
  [status |-> "-", stage |-> "-", progress |-> 0, etaSeconds |-> -1,
   logs |-> << >>, startedAt |-> 0, error |-> NoError, lastRun |-> NoLastRun]

\* ----------------------------------------------------------------- Init
\* The orchestrator specification leaves the execution channel out: a stage
\* child is a process that emits output and 'close'.
\* a connection the service has not accepted
NoConnection ==
  [st |-> "none", buffer |-> << >>, requestHandled |-> FALSE, input |-> << >>,
   payloads |-> << >>, spawns |-> 0, child |-> "none", code |-> "-",
   signal |-> "-", sent |-> << >>, endedAt |-> 0]

Conns == {"A", "B"}

\* The service process: st is its position (the main script has not run yet,
\* the server listens, the process has exited); code is the argument of
\* process.exit; signal, cause, listened and unlinkError record what happened.
Starting ==
  [st |-> "starting", code |-> "-", signal |-> "-", cause |-> "-",
   listened |-> FALSE, unlinkError |-> FALSE]

Listening == [Starting EXCEPT !.st = "listening", !.listened = TRUE]

\* the service is up: the socket file is bound and nobody has connected
ServiceIdle ==
  /\ conns = [c \in Conns |-> NoConnection]
  /\ daemon = Listening
  /\ endpoint = "bound"

\* jobState.logs is the array of the initialiser (line 121)
LogIdle ==
  /\ appended = << >>
  /\ heap = << << >> >>
  /\ logsRef = 1
  /\ handedOut = << >>

\* no byte of a response stream is under way
SegIdle ==
  /\ response = << >>
  /\ segments = << >>
  /\ clientBuffer = << >>

ChannelIdle ==
  /\ SegIdle
  /\ viaClient = FALSE
  /\ serviceUp = FALSE
  /\ proc = [st |-> "none", code |-> "-", sigterm |-> FALSE]
  /\ client = [pc |-> "none", gotError |-> FALSE, read |-> << >>, written |-> << >>]
  /\ service = [conn |-> "none", accepts |-> FALSE, requestHandled |-> FALSE,
                lostWrites |-> 0]
  /\ wire = << >>
  /\ command = [st |-> "none", by |-> "-", code |-> "-"]

RunnerInit ==
  /\ jobState = InitialJobState
  /\ stopRequested = FALSE
  /\ activeProcess = 0
  /\ pipelinePromise = 0
  /\ pipelines = << >>
  /\ children = << >>
  /\ invalidations = 0
  /\ now = 1
  /\ op = [name |-> "init", pre |-> "idle", child |-> 0, code |-> "-"]
  /\ steps = 0
  /\ returned = NoSnapshot
  /\ outputs = 0
  /\ LogIdle

Init == RunnerInit /\ ChannelIdle /\ ServiceIdle

Commit(S) ==
  /\ jobState' = S.js
  /\ stopRequested' = S.stop
  /\ activeProcess' = S.active
  /\ pipelinePromise' = S.promise
  /\ pipelines' = S.pipes
  /\ children' = S.kids
  /\ invalidations' = S.inval

Did(name, c, code) ==
  /\ steps < MaxSteps
  /\ steps' = steps + 1
  /\ UNCHANGED << chanVars, svcVars, lifeVars, segVars, logVars >>
  /\ name \notin {"startAudit", "stopAudit"} => returned' = NoSnapshot
  /\ op' = [name |-> name, pre |-> jobState.status, child |-> c, code |-> code]

\* ------------------------------------------------------------ startAudit
NoOp ==
  /\ UNCHANGED << jobState, stopRequested, activeProcess, pipelinePromise,
                  pipelines, children, invalidations >>
  /\ returned' = getAuditStatus

\* lines 152-167: the reset of the state and the pipeline's first segment.
\* runAuditPipeline runs synchronously up to its first await (prepareStage of
\* the first stage); getAuditStatus() is then called, before the microtask
\* that continues the pipeline with runStage.
StartRunReturnsAfterSpawn(spawnOk) ==
  LET p == Len(pipelines) + 1
      js == [status |-> "running", stage |-> "null", logs |-> << >>,
             startedAt |-> now, stageStartedAt |-> 0,
             error |-> NoError, lastRun |-> jobState.lastRun]
      S0 == [Runner EXCEPT
               !.stop = FALSE, !.js = js, !.promise = p,
               !.pipes = Append(@, [pc |-> "starting", stage |-> 0, child |-> 0])]
      S1 == PipelineLoop(S0, p, 1, "ok", spawnOk)
  IN /\ returned' = Snapshot(S1.js, now)
     /\ Commit(S1)

StartRun(spawnOk) ==
  LET p == Len(pipelines) + 1
      js == [status |-> "running", stage |-> "null", logs |-> << >>,
             startedAt |-> now, stageStartedAt |-> 0,
             error |-> NoError, lastRun |-> jobState.lastRun]
      S0 == [Runner EXCEPT
               !.stop = FALSE, !.js = js, !.promise = p,
               !.pipes = Append(@, [pc |-> "starting", stage |-> 0, child |-> 0])]
  IN /\ returned' = Snapshot(S0.js, now)
     /\ Commit(PipelineLoop(S0, p, 1, "ok", spawnOk))

StartAuditAlwaysRestarts(spawnOk) ==
  /\ Did("startAudit", 0, "-")
  /\ UNCHANGED << now, outputs >>
  /\ StartRun(spawnOk)

StartAudit(spawnOk) ==
  /\ Did("startAudit", 0, "-")
  /\ UNCHANGED << now, outputs >>
  /\ IF jobState.status = "running" THEN NoOp ELSE StartRun(spawnOk)

\* ------------------------------------------------------------- stopAudit
\* lines 176-194: flag, SIGTERM to the active child, log entry, new status
StopRunKeepsLastRun ==
  LET kids1 == IF activeProcess # 0
               THEN [children EXCEPT ![activeProcess].signalled = TRUE]
               ELSE children
      js1 == appendLog(jobState, "error", "Audit interrompu par l'utilisateur",
                       NoDetail, "-", Len(pipelines))
      js2 == [js1 EXCEPT !.status = "stopped", !.stage = "null",
                         !.stageStartedAt = 0, !.error = NoError]
  IN /\ returned' = Snapshot(js2, now)
     /\ Commit([Runner EXCEPT !.stop = TRUE, !.kids = kids1, !.js = js2])

StopRun ==
  LET kids1 == IF activeProcess # 0
               THEN [children EXCEPT ![activeProcess].signalled = TRUE]
               ELSE children
      js1 == appendLog(jobState, "error", "Audit interrompu par l'utilisateur",
                       NoDetail, "-", Len(pipelines))
      js2 == [js1 EXCEPT !.status = "stopped", !.stage = "null",
                         !.stageStartedAt = 0, !.error = NoError]
      js3 == IF js2.startedAt # 0
             THEN [js2 EXCEPT !.lastRun =
                     LastRun(js2.startedAt, now, "stopped", NoError)]
             ELSE js2
  IN /\ returned' = Snapshot(js3, now)
     /\ Commit([Runner EXCEPT !.stop = TRUE, !.kids = kids1, !.js = js3])

StopAuditAlwaysStops ==
  /\ Did("stopAudit", activeProcess, "-")
  /\ UNCHANGED << now, outputs >>
  /\ StopRun

StopAudit ==
  /\ Did("stopAudit", activeProcess, "-")
  /\ UNCHANGED << now, outputs >>
  /\ IF jobState.status # "running" THEN NoOp ELSE StopRun

\* ---------------------------------------------------- child 'close' event
\* The 'close' handler of executeCommand for child c, and the part of the
\* pipeline its settling of the promise resumes.  A child whose spawn failed
\* has emitted 'error' already (its promise is settled) and emits 'close' too.
CloseHandlerContinuesAfterFailure(S, c, code, latestDir, prep, spawnOk) ==
  LET kid == S.kids[c]
      p == kid.pipeline
      id == stageMeta[kid.stage].id
      S1 == [S EXCEPT !.active = 0, !.kids[c].st = "closed"]
  IN IF kid.promise # "pending" THEN S1
     ELSE IF S1.stop
     THEN Unwind([S1 EXCEPT !.kids[c].promise = "stopped"], p, AuditStopped)
     ELSE IF code = "0"
     THEN LET js1 == IF id = "network" /\ latestDir
                     THEN appendLog(S1.js, "info", "Resultats reseau", NoDetail, id, p)
                     ELSE S1.js
              js2 == appendLog(js1, "success", "Termine", NoDetail, id, p)
          IN PipelineLoop([S1 EXCEPT !.js = js2, !.kids[c].promise = "resolved"],
                          p, kid.stage + 1, prep, spawnOk)
     ELSE PipelineLoop([S1 EXCEPT !.kids[c].promise = "failed",
                          !.js = appendLog(@, "error", "Erreur lors de l'audit",
                                           StageFailure(id, code), "-", p)],
                       p, kid.stage + 1, prep, spawnOk)

CloseHandler(S, c, code, latestDir, prep, spawnOk) ==
  LET kid == S.kids[c]
      p == kid.pipeline
      id == stageMeta[kid.stage].id
      S1 == [S EXCEPT !.active = 0, !.kids[c].st = "closed"]
  IN IF kid.promise # "pending" THEN S1
     ELSE IF S1.stop
     THEN Unwind([S1 EXCEPT !.kids[c].promise = "stopped"], p, AuditStopped)
     ELSE IF code = "0"
     THEN LET js1 == IF id = "network" /\ latestDir
                     THEN appendLog(S1.js, "info", "Resultats reseau", NoDetail, id, p)
                     ELSE S1.js
              js2 == appendLog(js1, "success", "Termine", NoDetail, id, p)
          IN PipelineLoop([S1 EXCEPT !.js = js2, !.kids[c].promise = "resolved"],
                          p, kid.stage + 1, prep, spawnOk)
     ELSE Unwind([S1 EXCEPT !.kids[c].promise = "failed"], p, StageFailure(id, code))

ChildClose(c, code, latestDir, prep, spawnOk) ==
  /\ children[c].st \in {"alive", "errored"}
  /\ children[c].st = "errored" => code = "3"
  /\ Did("close", c, code)
  /\ UNCHANGED << now, outputs >>
  /\ Commit(CloseHandler(Runner, c, code, latestDir, prep, spawnOk))

\* --------------------------------------------- child stdout / stderr data
ChildOutput(c, level, chunk) ==
  /\ children[c].st = "alive"
  /\ outputs < MaxOutput
  /\ outputs' = outputs + 1
  /\ Did("data", c, "-")
  /\ jobState' = bufferAndAppend(jobState, chunk, level,
                                 stageMeta[children[c].stage].id, children[c].pipeline)
  /\ UNCHANGED << stopRequested, activeProcess, pipelinePromise, pipelines,
                  children, invalidations, now >>

\* ------------------------------------------------------------------ time
Tick ==
  /\ \E t \in Clock : t > now /\ now' = t
  /\ Did("tick", 0, "-")
  /\ UNCHANGED << jobState, stopRequested, activeProcess, pipelinePromise,
                  pipelines, children, invalidations, outputs >>

Next ==
  \/ \E spawnOk \in BOOLEAN : StartAudit(spawnOk)
  \/ StopAudit
  \/ \E c \in DOMAIN children, code \in ExitCodes, latestDir \in BOOLEAN,
        prep \in PrepOutcomes, spawnOk \in BOOLEAN :
        ChildClose(c, code, latestDir, prep, spawnOk)
  \/ \E c \in DOMAIN children, level \in {"info", "error"}, chunk \in Chunks :
        ChildOutput(c, level, chunk)
  \/ Tick

Spec == Init /\ [][Next]_vars

\* The orchestrator with a bounded number of calls of the exported
\* operations and with children that all emit 'close' in the end.
Called(name, c, code) ==
  /\ op' = [name |-> name, pre |-> jobState.status, child |-> c, code |-> code]
  /\ UNCHANGED << now, outputs, chanVars, svcVars, lifeVars, segVars, logVars >>

FairStartAudit(spawnOk) ==
  /\ steps < MaxCalls
  /\ steps' = steps + 1
  /\ Called("startAudit", 0, "-")
  /\ IF jobState.status = "running" THEN NoOp ELSE StartRun(spawnOk)

FairStopAudit ==
  /\ steps < MaxCalls
  /\ steps' = steps + 1
  /\ Called("stopAudit", activeProcess, "-")
  /\ IF jobState.status # "running" THEN NoOp ELSE StopRun

FairChildClose(c, code, latestDir, prep, spawnOk) ==
  /\ children[c].st \in {"alive", "errored"}
  /\ children[c].st = "errored" => code = "3"
  /\ Called("close", c, code)
  /\ returned' = NoSnapshot
  /\ UNCHANGED steps
  /\ Commit(CloseHandler(Runner, c, code, latestDir, prep, spawnOk))

ChildCloses ==
  \E c \in DOMAIN children, code \in ExitCodes, latestDir \in BOOLEAN,
     prep \in PrepOutcomes, spawnOk \in BOOLEAN :
     FairChildClose(c, code, latestDir, prep, spawnOk)

FairNext ==
  \/ \E spawnOk \in BOOLEAN : FairStartAudit(spawnOk)
  \/ FairStopAudit
  \/ ChildCloses

\* every spawned child eventually emits 'close' (after 'error', when its
\* spawn failed)
FairSpec == Init /\ [][FairNext]_vars /\ WF_vars(ChildCloses)

\* ======================================================================
\* getAuditStatus() as a function of the job state and the clock: the job
\* state is any state in which a status query can find the runner, the time
\* since the active stage started is drawn to the millisecond.
\* ======================================================================
ElapsedTimes == {0, 1, 240000, 240500, 480000, 600000, 900000, 900001}

StatusInputs ==
  { [InitialJobState EXCEPT !.status = st, !.stage = sg,
                            !.startedAt = IF st = "idle" THEN 0 ELSE 1000,
                            !.stageStartedAt = IF sg = "null" THEN 0 ELSE 1000] :
      st \in {"idle", "running", "completed", "error", "stopped"},
      sg \in {"null"} \cup {stageMeta[k].id : k \in DOMAIN stageMeta} }

StatusInit ==
  /\ jobState \in {js \in StatusInputs : js.status = "idle" => js.stage = "null"}
  /\ now \in {1000 + e : e \in ElapsedTimes}
  /\ stopRequested = FALSE
  /\ activeProcess = 0
  /\ pipelinePromise = 0
  /\ pipelines = << >>
  /\ children = << >>
  /\ invalidations = 0
  /\ op = [name |-> "init", pre |-> jobState.status, child |-> 0, code |-> "-"]
  /\ steps = 0
  /\ returned = NoSnapshot
  /\ outputs = 0
  /\ LogIdle
  /\ ChannelIdle
  /\ ServiceIdle

\* a status query (GET /api/audit/status)
StatusQuery ==
  /\ returned = NoSnapshot
  /\ returned' = getAuditStatus
  /\ op' = [name |-> "getAuditStatus", pre |-> jobState.status, child |-> 0, code |-> "-"]
  /\ UNCHANGED << jobState, stopRequested, activeProcess, pipelinePromise, pipelines,
                  children, invalidations, now, steps, outputs, chanVars, svcVars,
                  lifeVars, segVars, logVars >>

StatusSpec == StatusInit /\ [][StatusQuery]_vars

\* ======================================================================
\* The log alone: appendLog called any number of times within one run.
\* ======================================================================
\* appendLog(level, message): the k-th message of the run is "line k"
LogAppend(level) ==
  /\ Len(appended) < MaxAppends
  /\ LET entry == LogEntry(level, "line", Text(ToString(Len(appended) + 1)), "-", 0)
     IN /\ jobState' = appendLog(jobState, level, "line",
                                 Text(ToString(Len(appended) + 1)), "-", 0)
        /\ appended' = Append(appended, entry)
  /\ UNCHANGED << stopRequested, activeProcess, pipelinePromise, pipelines, children,
                  invalidations, now, op, steps, returned, outputs, chanVars, svcVars,
                  lifeVars, segVars, heap, logsRef, handedOut >>

\* startAudit, line 156: logs: []
LogReset ==
  /\ appended # << >>
  /\ jobState' = [jobState EXCEPT !.logs = << >>]
  /\ appended' = << >>
  /\ UNCHANGED << stopRequested, activeProcess, pipelinePromise, pipelines, children,
                  invalidations, now, op, steps, returned, outputs, chanVars, svcVars,
                  lifeVars, segVars, heap, logsRef, handedOut >>

LogNext ==
  \/ LogAppend("info")
  \/ LogReset

LogSpec == Init /\ [][LogNext]_vars

\* ======================================================================
\* The log arrays on the heap.  jobState.logs refers to an array; a snapshot
\* of getAuditStatus() holds the same reference, not a copy.
\* ======================================================================
\* getAuditStatus(), line 139: logs: jobState.logs
GetAuditStatusCall ==
  /\ Len(handedOut) < MaxSnapshots
  /\ handedOut' = Append(handedOut, [ref |-> logsRef, logs |-> heap[logsRef]])
  /\ returned' = getAuditStatus
  /\ op' = [name |-> "getAuditStatus", pre |-> jobState.status, child |-> 0, code |-> "-"]
  /\ UNCHANGED << jobState, stopRequested, activeProcess, pipelinePromise, pipelines,
                  children, invalidations, now, steps, outputs, chanVars, svcVars,
                  lifeVars, segVars, appended, heap, logsRef >>

\* appendLog, lines 314-322: the spread builds a new array, slice another one
AppendLogInPlace(level) ==
  /\ Len(heap) < MaxArrays
  /\ LET entry == LogEntry(level, "line", NoDetail, "-", 0)
     IN /\ heap' = [heap EXCEPT ![logsRef] = Append(@, entry)]
        /\ logsRef' = logsRef
        /\ jobState' = appendLog(jobState, level, "line", NoDetail, "-", 0)
  /\ op' = [name |-> "appendLog", pre |-> jobState.status, child |-> 0, code |-> "-"]
  /\ UNCHANGED << stopRequested, activeProcess, pipelinePromise, pipelines, children,
                  invalidations, now, steps, returned, outputs, chanVars, svcVars,
                  lifeVars, segVars, appended, handedOut >>

AppendLogCall(level) ==
  /\ Len(heap) < MaxArrays
  /\ LET entry == LogEntry(level, "line", NoDetail, "-", 0)
     IN /\ heap' = Append(heap, LastN(Append(heap[logsRef], entry), MAX_LOG_ENTRIES))
        /\ logsRef' = Len(heap) + 1
        /\ jobState' = appendLog(jobState, level, "line", NoDetail, "-", 0)
  /\ op' = [name |-> "appendLog", pre |-> jobState.status, child |-> 0, code |-> "-"]
  /\ UNCHANGED << stopRequested, activeProcess, pipelinePromise, pipelines, children,
                  invalidations, now, steps, returned, outputs, chanVars, svcVars,
                  lifeVars, segVars, appended, handedOut >>

\* startAudit, lines 153-161: a new jobState object with a new empty array
ResetLogs ==
  /\ Len(heap) < MaxArrays
  /\ heap' = Append(heap, << >>)
  /\ logsRef' = Len(heap) + 1
  /\ jobState' = [jobState EXCEPT !.logs = << >>]
  /\ op' = [name |-> "startAudit", pre |-> jobState.status, child |-> 0, code |-> "-"]
  /\ UNCHANGED << stopRequested, activeProcess, pipelinePromise, pipelines, children,
                  invalidations, now, steps, returned, outputs, chanVars, svcVars,
                  lifeVars, segVars, appended, handedOut >>

HeapNext ==
  \/ GetAuditStatusCall
  \/ \E level \in {"info", "error"} : AppendLogCall(level)
  \/ ResetLogs

HeapSpec == Init /\ [][HeapNext]_vars

\* ======================================================================
\* The output handlers of executeCommand: a stage's child is alive and
\* writes chunks of any lines to stdout and stderr.
\* ======================================================================
\* the lines output.split(/\r?\n/) can yield: empty, blank, text, padded text
Lines == {"", " ", "a", "b "}

OutputChunks ==
  UNION { [1..n -> Lines] : n \in 1..MaxLines }

\* the log of a run whose pipeline waits for the child of stage i
RECURSIVE logsUpTo(_)
logsUpTo(i) ==
  IF i = 0 THEN << >>
  ELSE (IF i = 1 THEN << >>
        ELSE Append(logsUpTo(i - 1),
                    LogEntry("success", "Termine", NoDetail, stageMeta[i - 1].id, 1)))
       \o << LogEntry("info", "Demarrage", NoDetail, stageMeta[i].id, 1) >>

\* startAudit() has run and the pipeline awaits executeCommand of stage i
OutputInit ==
  \E i \in DOMAIN stageMeta :
    /\ jobState = [InitialJobState EXCEPT !.status = "running",
                      !.stage = stageMeta[i].id, !.startedAt = 1,
                      !.stageStartedAt = 1, !.logs = logsUpTo(i)]
    /\ stopRequested = FALSE
    /\ activeProcess = i
    /\ pipelinePromise = 1
    /\ pipelines = << [pc |-> "awaiting", stage |-> i, child |-> i] >>
    /\ children = [k \in 1..i |->
                     [pipeline |-> 1, stage |-> k,
                      st |-> IF k = i THEN "alive" ELSE "closed",
                      promise |-> IF k = i THEN "pending" ELSE "resolved",
                      signalled |-> FALSE]]
    /\ invalidations = 0
    /\ now = 1
    /\ op = [name |-> "close", pre |-> "running", child |-> i - 1, code |-> "0"]
    /\ steps = 0
    /\ returned = NoSnapshot
    /\ outputs = 0
    /\ LogIdle
    /\ ChannelIdle
    /\ ServiceIdle

\* child.stdout.on('data') / child.stderr.on('data'), lines 270-276
StdioData(c, stream, lines) ==
  /\ children[c].st = "alive"
  /\ outputs < MaxChunks
  /\ outputs' = outputs + 1
  /\ op' = [name |-> "data", pre |-> jobState.status, child |-> c, code |-> "-",
            stream |-> stream, lines |-> lines]
  /\ jobState' = bufferAndAppend(jobState, lines,
                                 IF stream = "stdout" THEN "info" ELSE "error",
                                 stageMeta[children[c].stage].id, children[c].pipeline)
  /\ UNCHANGED << stopRequested, activeProcess, pipelinePromise, pipelines, children,
                  invalidations, now, steps, returned, chanVars, svcVars, lifeVars, segVars,
                  logVars >>

OutputNext ==
  \E c \in DOMAIN children, stream \in {"stdout", "stderr"}, lines \in OutputChunks :
     StdioData(c, stream, lines)

OutputSpec == OutputInit /\ [][OutputNext]_vars

\* ======================================================================
\* The execution channel: one stage command, run either directly by the
\* orchestrator or through the privileged client and service.  The state
\* starts where executeCommand has spawned the stage's process.
\* ======================================================================
Event(event, data, code, signal) ==
  [event |-> event, data |-> data, code |-> code, signal |-> signal]

ChannelInit ==
  /\ RunnerInit
  /\ SegIdle
  /\ ServiceIdle
  /\ viaClient \in BOOLEAN
  /\ serviceUp \in BOOLEAN
  /\ proc = [st |-> "running", code |-> "-", sigterm |-> FALSE]
  /\ client = [pc |-> IF viaClient THEN "connecting" ELSE "none",
               gotError |-> FALSE, read |-> << >>, written |-> << >>]
  /\ \E accepts \in BOOLEAN :
       service = [conn |-> "none", accepts |-> accepts, requestHandled |-> FALSE,
                  lostWrites |-> 0]
  /\ wire = << >>
  /\ command = IF viaClient THEN [st |-> "none", by |-> "-", code |-> "-"]
               ELSE [st |-> "running", by |-> "orchestrator", code |-> "-"]

\* process.exit(code) of the client, or the end of its event loop
ClientExitsFrom(cl, code) ==
  /\ client' = [cl EXCEPT !.pc = "exited"]
  /\ proc' = [proc EXCEPT !.st = "exited", !.code = code]
  /\ wire' = << >>
  /\ service' = [service EXCEPT !.conn = IF @ = "open" THEN "peerGone" ELSE @]

ClientExits(code) ==
  /\ client' = [client EXCEPT !.pc = "exited"]
  /\ proc' = [proc EXCEPT !.st = "exited", !.code = code]
  /\ wire' = << >>
  /\ service' = [service EXCEPT !.conn = IF @ = "open" THEN "peerGone" ELSE @]

\* writeMessage: socket.write never throws; a write after end() or to a
\* connection whose peer is gone reaches nobody
writeMessage(svc, w, ev) ==
  IF svc.conn = "open" THEN << svc, Append(w, ev) >>
  ELSE << [svc EXCEPT !.lostWrites = @ + 1], w >>

\* run: connectToService resolved, forwardCommand writes the request line.
\* connectToService listens for 'connect' and 'error' only: while the endpoint
\* exists and the attempt is not completed, nothing happens.
ClientConnected ==
  /\ client.pc = "connecting"
  /\ serviceUp
  /\ service.accepts
  /\ client' = [client EXCEPT !.pc = "forwarding"]
  /\ service' = [service EXCEPT !.conn = "open"]
  /\ UNCHANGED << logVars, lifeVars, segVars, svcVars, orchVars, outputs, viaClient, serviceUp, proc, wire, command >>

\* run: connectToService rejected, runLocal spawns the command itself
ClientConnectFailed(spawnOk) ==
  /\ client.pc = "connecting"
  /\ ~serviceUp
  /\ IF spawnOk
     THEN /\ client' = [client EXCEPT !.pc = "local"]
          /\ command' = [st |-> "running", by |-> "client", code |-> "-"]
          /\ UNCHANGED << proc, wire, service >>
     ELSE /\ ClientExits("1")
          /\ command' = [st |-> "reaped", by |-> "client", code |-> "-"]
  /\ UNCHANGED << logVars, lifeVars, segVars, svcVars, orchVars, outputs, viaClient, serviceUp >>

\* the connection's 'data' handler and handleRequest, for the client's request
\* line (a well-formed request with a non-empty command array).  A spawn that
\* fails emits 'error' from process.nextTick.
handleRequest(spawnOk) ==
  /\ service.conn \in {"open", "peerGone"}
  /\ ~service.requestHandled
  /\ IF spawnOk
     THEN /\ service' = [service EXCEPT !.requestHandled = TRUE]
          /\ command' = [st |-> "running", by |-> "service", code |-> "-"]
          /\ UNCHANGED wire
     ELSE LET w == writeMessage([service EXCEPT !.requestHandled = TRUE], wire,
                                Event("error", "spawn ENOENT", "-", "-"))
          IN /\ service' = [w[1] EXCEPT !.conn = IF @ = "open" THEN "ended" ELSE @]
             /\ wire' = w[2]
             /\ command' = [st |-> "errored", by |-> "service", code |-> "-"]
  /\ UNCHANGED << logVars, lifeVars, segVars, svcVars, orchVars, outputs, viaClient, serviceUp, proc, client >>

\* handleRequest: the child's stdout / stderr 'data' handlers
ServiceChildOutput(stream) ==
  /\ command.st = "running"
  /\ command.by = "service"
  /\ outputs < MaxOutput
  /\ outputs' = outputs + 1
  /\ LET w == writeMessage(service, wire, Event(stream, "chunk", "-", "-"))
     IN service' = w[1] /\ wire' = w[2]
  /\ UNCHANGED << logVars, lifeVars, segVars, svcVars, orchVars, viaClient, serviceUp, proc, client, command >>

\* handleRequest: the child's 'close' handler; it also runs after 'error'
ServiceChildClose ==
  /\ command.by = "service"
  /\ command.st \in {"exited", "errored"}
  /\ LET code == IF command.st = "errored" THEN "-2" ELSE command.code
         w == writeMessage(service, wire,
                Event("exit", "-", code, IF code = "null" THEN "SIGTERM" ELSE "null"))
     IN /\ service' = [w[1] EXCEPT !.conn = IF @ = "open" THEN "ended" ELSE @]
        /\ wire' = w[2]
  /\ command' = [command EXCEPT !.st = "reaped"]
  /\ UNCHANGED << logVars, lifeVars, segVars, svcVars, orchVars, outputs, viaClient, serviceUp, proc, client >>

\* process.stdout.write / process.stderr.write of the client
Written(stream, data, from) == [stream |-> stream, data |-> data, from |-> from]

\* handleMessage, line 109
ExitStatusIgnoresSignal(ev) ==
  IF ev.code # "null" THEN ev.code ELSE "0"

ExitStatus(ev) ==
  IF ev.code # "null" THEN ev.code ELSE IF ev.signal # "null" THEN "128" ELSE "0"

\* forwardCommand's 'data' handler and handleMessage, for one event record
handleMessage ==
  /\ client.pc = "forwarding"
  /\ wire # << >>
  /\ LET ev == Head(wire)
         cl == [client EXCEPT !.read = Append(@, ev)]
     IN IF ev.event \in {"stdout", "stderr"}
        THEN /\ client' = IF ev.data # "notAString"
                          THEN [cl EXCEPT !.written = Append(@, Written(ev.event, ev.data, ev.event))]
                          ELSE cl
             /\ wire' = Tail(wire)
             /\ UNCHANGED << proc, service >>
        ELSE IF ev.event = "error"
        THEN /\ client' = [cl EXCEPT !.gotError = TRUE,
                                     !.written = Append(@, Written("stderr", ev.data, "error"))]
             /\ wire' = Tail(wire)
             /\ UNCHANGED << proc, service >>
        ELSE ClientExitsFrom(cl, ExitStatus(ev))
  /\ UNCHANGED << logVars, lifeVars, segVars, svcVars, orchVars, outputs, viaClient, serviceUp, command >>

\* forwardCommand's 'end' handler does nothing: once the service has ended
\* the connection nothing keeps the client's event loop alive and the
\* process ends with exit status 0
ClientSocketEnd ==
  /\ client.pc = "forwarding"
  /\ wire = << >>
  /\ service.conn = "ended"
  /\ ClientExits("0")
  /\ UNCHANGED << logVars, lifeVars, segVars, svcVars, orchVars, outputs, viaClient, serviceUp, command >>

\* runLocal: the child's stdout / stderr 'data' handlers
ClientLocalOutput(stream) ==
  /\ client.pc = "local"
  /\ command.st = "running"
  /\ outputs < MaxOutput
  /\ outputs' = outputs + 1
  /\ client' = [client EXCEPT !.written = Append(@, Written(stream, "chunk", "local"))]
  /\ UNCHANGED << logVars, lifeVars, segVars, svcVars, orchVars, viaClient, serviceUp, proc, service, wire, command >>

\* runLocal: the child's 'close' handler, process.exit(code ?? 1)
ClientLocalClose ==
  /\ client.pc = "local"
  /\ command.st = "exited"
  /\ ClientExits(IF command.code = "null" THEN "1" ELSE command.code)
  /\ command' = [command EXCEPT !.st = "reaped"]
  /\ UNCHANGED << logVars, lifeVars, segVars, svcVars, orchVars, outputs, viaClient, serviceUp >>

\* the command ends by itself with an exit code, or by a signal of its own
CommandExit(code) ==
  /\ command.st = "running"
  /\ command' = [command EXCEPT !.st = "exited", !.code = code]
  /\ IF command.by = "orchestrator"
     THEN proc' = [proc EXCEPT !.st = "exited", !.code = code]
     ELSE UNCHANGED proc
  /\ UNCHANGED << logVars, lifeVars, segVars, svcVars, orchVars, outputs, viaClient, serviceUp, client, service, wire >>

\* stopAudit, lines 177-179: SIGTERM to the process the orchestrator spawned.
\* Neither the client nor the stage commands handle SIGTERM, so the signalled
\* process ends; no other process is signalled.  When that process is the
\* client its connection is closed with it, for which the service has no
\* handler, and a command the client runs locally is not its process either.
KillActiveProcess ==
  /\ proc.st = "running"
  /\ proc' = [proc EXCEPT !.st = "exited", !.code = "null", !.sigterm = TRUE]
  /\ IF viaClient
     THEN /\ client' = [client EXCEPT !.pc = "killed"]
          /\ wire' = << >>
          /\ service' = [service EXCEPT !.conn = IF @ = "open" THEN "peerGone" ELSE @]
          /\ UNCHANGED command
     ELSE /\ command' = [command EXCEPT !.st = "exited", !.code = "null"]
          /\ UNCHANGED << client, wire, service >>
  /\ UNCHANGED << logVars, lifeVars, segVars, svcVars, orchVars, outputs, viaClient, serviceUp >>

ChannelNext ==
  \/ ClientConnected
  \/ \E spawnOk \in BOOLEAN : ClientConnectFailed(spawnOk)
  \/ \E spawnOk \in BOOLEAN : handleRequest(spawnOk)
  \/ \E stream \in {"stdout", "stderr"} : ServiceChildOutput(stream)
  \/ ServiceChildClose
  \/ handleMessage
  \/ ClientSocketEnd
  \/ \E stream \in {"stdout", "stderr"} : ClientLocalOutput(stream)
  \/ ClientLocalClose
  \/ \E code \in ExitCodes : CommandExit(code)
  \/ KillActiveProcess

ChannelSpec == ChannelInit /\ [][ChannelNext]_vars

\* The event loops of the client and of the service handle every pending
\* event.  When a command ends by itself, and whether stopAudit() is called,
\* is up to the environment.
FairChannelSpec ==
  /\ ChannelSpec
  /\ WF_vars(ClientConnected)
  /\ WF_vars(\E spawnOk \in BOOLEAN : ClientConnectFailed(spawnOk))
  /\ WF_vars(\E spawnOk \in BOOLEAN : handleRequest(spawnOk))
  /\ WF_vars(ServiceChildClose)
  /\ WF_vars(handleMessage)
  /\ WF_vars(ClientSocketEnd)
  /\ WF_vars(ClientLocalClose)

\* The client alone, reading what an arbitrary peer has written on the
\* socket: forwardCommand has sent the request.
WireEvents ==
  { Event(e, d, "-", "-") : e \in {"stdout", "stderr"}, d \in {"a", "b", "notAString"} }
    \cup { Event("error", "message", "-", "-") }
    \cup { Event("exit", "-", c, g) : c \in ExitCodes, g \in {"SIGTERM", "null"} }

RECURSIVE SeqsUpTo(_, _)
SeqsUpTo(S, n) ==
  IF n = 0 THEN { << >> }
  ELSE LET shorter == SeqsUpTo(S, n - 1)
       IN shorter \cup { Append(q, x) : q \in shorter, x \in S }

ClientInit ==
  /\ RunnerInit
  /\ SegIdle
  /\ ServiceIdle
  /\ viaClient = TRUE
  /\ serviceUp = TRUE
  /\ proc = [st |-> "running", code |-> "-", sigterm |-> FALSE]
  /\ client = [pc |-> "forwarding", gotError |-> FALSE, read |-> << >>, written |-> << >>]
  /\ \E conn \in {"open", "ended"} :
       service = [conn |-> conn, accepts |-> TRUE, requestHandled |-> TRUE,
                  lostWrites |-> 0]
  /\ wire \in SeqsUpTo(WireEvents, MaxWire)
  /\ command = [st |-> "none", by |-> "-", code |-> "-"]

ClientNext ==
  \/ handleMessage
  \/ ClientSocketEnd

ClientSpec == ClientInit /\ [][ClientNext]_vars

\* ======================================================================
\* The privileged scan service with several connections.  The clients are
\* arbitrary: they send any text, split into chunks in any way.
\* ======================================================================
\* Text is a sequence of symbols: the newline, or a fragment of JSON text
\* (fragments stand for runs of characters that the chunking may separate).
NL == "\n"
Fragments == { "{\"command\":[", "\"ls\"]}", "]}", "{}", "{\"command\":\"ls\"}" }
Symbols == Fragments \cup {NL}

SocketChunks == { <<x>> : x \in Symbols } \cup { <<x, y>> : x, y \in Symbols }

\* the only text over these fragments that is a request with a command to run
RunLs == << "{\"command\":[", "\"ls\"]}" >>

\* JSON.parse of a payload: the parsed value's kind, or a SyntaxError
JSONparse(payload) ==
  IF payload = RunLs THEN [ok |-> TRUE, command |-> "nonEmptyArray"]
  ELSE IF payload = << "{\"command\":[", "]}" >> THEN [ok |-> TRUE, command |-> "emptyArray"]
  ELSE IF payload = << "{}" >> THEN [ok |-> TRUE, command |-> "undefined"]
  ELSE IF payload = << "{\"command\":\"ls\"}" >> THEN [ok |-> TRUE, command |-> "string"]
  ELSE IF payload = << "{\"command\":[\"\"]}" >> THEN [ok |-> TRUE, command |-> "emptyProgram"]
  ELSE IF payload = << "{\"command\":[5]}" >> THEN [ok |-> TRUE, command |-> "nonStringProgram"]
  ELSE [ok |-> FALSE, command |-> "-"]

\* buffer.indexOf('\n'), 1-based; 0 when there is none
RECURSIVE indexOfNL(_, _)
indexOfNL(text, i) ==
  IF i > Len(text) THEN 0
  ELSE IF text[i] = NL THEN i
  ELSE indexOfNL(text, i + 1)

\* the ways a spawned child ends: exit code, or null and the signal
ChildEndings ==
  { [code |-> "0", signal |-> "null"], [code |-> "3", signal |-> "null"],
    [code |-> "null", signal |-> "SIGTERM"] }

\* writeMessage(socket, payload) called by a handler of connection `from`:
\* the write is attempted on `to`, the socket the handler's closure holds
socketWriteElsewhere(cs, from, to, ev) ==
  LET other == CHOOSE d \in Conns : d # to
  IN [cs EXCEPT ![other].sent = Append(@, [ev |-> ev, from |-> from])]

socketWrite(cs, from, to, ev) ==
  [cs EXCEPT ![to].sent = Append(@, [ev |-> ev, from |-> from])]

\* socket.end(): the first call ends the writable side
socketEnd(cs, c) ==
  IF cs[c].st = "open"
  THEN [cs EXCEPT ![c].st = "ended", ![c].endedAt = Len(cs[c].sent)]
  ELSE cs

\* handleRequest(socket, payload) for connection c.  A spawn that fails emits
\* 'error' from process.nextTick, before any other event is handled.  spawn
\* throws a TypeError, synchronously, when the program is not a string or is
\* the empty string.
requestRejectedSilently(cs, c, payload, spawnOk) ==
  LET request == JSONparse(payload)
      cs0 == [cs EXCEPT ![c].payloads = Append(@, payload)]
  IN IF request.command # "nonEmptyArray"
     THEN socketEnd(cs0, c)
     ELSE IF spawnOk
     THEN [cs0 EXCEPT ![c].spawns = @ + 1, ![c].child = "running"]
     ELSE socketEnd(
            socketWrite([cs0 EXCEPT ![c].spawns = @ + 1, ![c].child = "errored"],
                        c, c, Event("error", "spawn ENOENT", "-", "-")), c)

handleRequestOn(cs, c, payload, spawnOk) ==
  LET request == JSONparse(payload)
      cs0 == [cs EXCEPT ![c].payloads = Append(@, payload)]
  IN IF ~request.ok
     THEN socketEnd(socketWrite(cs0, c, c,
                                Event("error", "Invalid JSON payload", "-", "-")), c)
     ELSE IF request.command \in {"emptyProgram", "nonStringProgram"}
     THEN [cs0 EXCEPT ![c].child = "threw"]
     ELSE IF request.command # "nonEmptyArray"
     THEN socketEnd(socketWrite(cs0, c, c,
                                Event("error", "Missing command to execute", "-", "-")), c)
     ELSE IF spawnOk
     THEN [cs0 EXCEPT ![c].spawns = @ + 1, ![c].child = "running"]
     ELSE socketEnd(
            socketWrite([cs0 EXCEPT ![c].spawns = @ + 1, ![c].child = "errored"],
                        c, c, Event("error", "spawn ENOENT", "-", "-")), c)

\* the connection callback of net.createServer
Accept(c) ==
  /\ daemon.st = "listening"
  /\ conns[c].st = "none"
  /\ conns' = [conns EXCEPT ![c].st = "open"]
  /\ UNCHANGED << orchVars, outputs, chanVars, lifeVars, segVars, logVars >>

\* the socket's 'data' handler, for a chunk of the client's text
onDataEveryLine(cs, c, chunk, spawnOk) ==
  LET buffer == cs[c].buffer \o chunk
      cs1 == [cs EXCEPT ![c].buffer = buffer, ![c].input = @ \o chunk]
      newlineIndex == indexOfNL(buffer, 1)
  IN IF newlineIndex = 0 THEN cs1
     ELSE handleRequestOn(
            [cs1 EXCEPT ![c].requestHandled = TRUE,
                        ![c].buffer = SubSeq(buffer, newlineIndex + 1, Len(buffer))],
            c, SubSeq(buffer, 1, newlineIndex - 1), spawnOk)

onData(cs, c, chunk, spawnOk) ==
  LET buffer == cs[c].buffer \o chunk
      cs1 == [cs EXCEPT ![c].buffer = buffer, ![c].input = @ \o chunk]
      newlineIndex == indexOfNL(buffer, 1)
  IN IF cs[c].requestHandled THEN cs1
     ELSE IF newlineIndex = 0 THEN cs1
     ELSE handleRequestOn(
            [cs1 EXCEPT ![c].requestHandled = TRUE,
                        ![c].buffer = SubSeq(buffer, newlineIndex + 1, Len(buffer))],
            c, SubSeq(buffer, 1, newlineIndex - 1), spawnOk)

\* an exception that leaves an event handler ends the process with code 1:
\* the service installs no 'uncaughtException' handler
uncaughtException(d, thrown) ==
  IF thrown THEN [d EXCEPT !.st = "exited", !.code = "1", !.cause = "uncaughtException"]
  ELSE d

SocketData(c, chunk, spawnOk) ==
  /\ daemon.st = "listening"
  /\ conns[c].st \in {"open", "ended"}
  /\ Len(conns[c].input) + Len(chunk) <= MaxInput
  /\ conns' = onData(conns, c, chunk, spawnOk)
  /\ daemon' = uncaughtException(daemon, conns'[c].child = "threw")
  /\ UNCHANGED << orchVars, outputs, chanVars, endpoint, segVars, logVars >>

\* the 'data' handlers of the child's stdout and stderr; the streams may still
\* deliver data after the child has exited, until 'close'
ChildData(c, stream) ==
  /\ daemon.st = "listening"
  /\ conns[c].child \in {"running", "exited"}
  /\ outputs < MaxOutput
  /\ outputs' = outputs + 1
  /\ conns' = socketWrite(conns, c, c, Event(stream, "chunk", "-", "-"))
  /\ UNCHANGED << orchVars, chanVars, lifeVars, segVars, logVars >>

\* the child of connection c ends
ChildExit(c, ending) ==
  /\ conns[c].child = "running"
  /\ conns' = [conns EXCEPT ![c].child = "exited", ![c].code = ending.code,
                            ![c].signal = ending.signal]
  /\ UNCHANGED << orchVars, outputs, chanVars, lifeVars, segVars, logVars >>

\* the child's 'close' handler; 'close' also follows the 'error' of a failed
\* spawn, with the negated errno as the code
onChildCloseNoExit(cs, c) ==
  socketEnd(cs, c)

onChildClose(cs, c) ==
  LET code == IF cs[c].child = "errored" THEN "-2" ELSE cs[c].code
      signal == IF cs[c].child = "errored" THEN "null" ELSE cs[c].signal
  IN socketEnd(socketWrite(cs, c, c, Event("exit", "-", code, signal)), c)

ChildCloseEvent(c) ==
  /\ daemon.st = "listening"
  /\ conns[c].child \in {"exited", "errored"}
  /\ conns' = [onChildClose(conns, c) EXCEPT ![c].child =
                 IF conns[c].child = "errored" THEN "failed" ELSE "closed"]
  /\ UNCHANGED << orchVars, outputs, chanVars, lifeVars, segVars, logVars >>

ServiceNext ==
  \/ \E c \in Conns : Accept(c)
  \/ \E c \in Conns, chunk \in SocketChunks, spawnOk \in BOOLEAN :
        SocketData(c, chunk, spawnOk)
  \/ \E c \in Conns, stream \in {"stdout", "stderr"} : ChildData(c, stream)
  \/ \E c \in Conns, ending \in ChildEndings : ChildExit(c, ending)
  \/ \E c \in Conns : ChildCloseEvent(c)

ServiceSpec == Init /\ [][ServiceNext]_vars

\* The service and clients that send whole request lines, among them
\* requests whose program is the empty string or is not a string.
RequestLines ==
  { << x, NL >> : x \in Fragments \cup {"{\"command\":[\"\"]}", "{\"command\":[5]}"} }
    \cup { RunLs \o << NL >> }

RequestNext ==
  \/ \E c \in Conns : Accept(c)
  \/ \E c \in Conns, chunk \in RequestLines, spawnOk \in BOOLEAN :
        SocketData(c, chunk, spawnOk)
  \/ \E c \in Conns, stream \in {"stdout", "stderr"} : ChildData(c, stream)
  \/ \E c \in Conns, ending \in ChildEndings : ChildExit(c, ending)
  \/ \E c \in Conns : ChildCloseEvent(c)

RequestSpec == Init /\ [][RequestNext]_vars

\* The service's event loop handles every pending event, and the child of
\* connection B ends; nothing is assumed about the child of connection A.
FairServiceSpec ==
  /\ ServiceSpec
  /\ \A c \in Conns : WF_vars(ChildCloseEvent(c))
  /\ WF_vars(\E ending \in ChildEndings : ChildExit("B", ending))

\* ======================================================================
\* The life of the service process: the main script, then the event loop
\* until process.exit.
\* ======================================================================
\* cleanupAndExit(code): the socket file is unlinked if it exists, inside a
\* try whose catch only logs; then process.exit(code)
cleanupAndExitKeepsFile(d, ep, code, unlinkOk) ==
  [daemon |-> [d EXCEPT !.st = "exited", !.code = code], endpoint |-> ep]

cleanupAndExit(d, ep, code, unlinkOk) ==
  IF ep = "absent"
  THEN [daemon |-> [d EXCEPT !.st = "exited", !.code = code], endpoint |-> ep]
  ELSE IF unlinkOk
  THEN [daemon |-> [d EXCEPT !.st = "exited", !.code = code], endpoint |-> "absent"]
  ELSE [daemon |-> [d EXCEPT !.st = "exited", !.code = code, !.unlinkError = TRUE],
        endpoint |-> ep]

\* server.listen(socketPath): bind fails with EADDRINUSE on an existing file,
\* and may fail for another reason (EACCES); the 'error' handler then runs
\* cleanupAndExit(1)
listen(d, ep, listenOk, unlinkOk) ==
  IF ep # "absent"
  THEN cleanupAndExit([d EXCEPT !.cause = "EADDRINUSE"], ep, "1", unlinkOk)
  ELSE IF ~listenOk
  THEN cleanupAndExit([d EXCEPT !.cause = "listen-error"], ep, "1", unlinkOk)
  ELSE [daemon |-> [d EXCEPT !.st = "listening", !.listened = TRUE],
        endpoint |-> "bound"]

\* the main script: the stale socket file is removed, the server is created
\* and bound, the signal handlers are installed
mainIgnoresUnlinkError(d, ep, staleUnlinkOk, listenOk, unlinkOk) ==
  listen(d, ep, listenOk, unlinkOk)

main(d, ep, staleUnlinkOk, listenOk, unlinkOk) ==
  IF ep = "absent" THEN listen(d, ep, listenOk, unlinkOk)
  ELSE IF staleUnlinkOk THEN listen(d, "absent", listenOk, unlinkOk)
  ELSE [daemon |-> [d EXCEPT !.st = "exited", !.code = "1",
                             !.cause = "stale-unlink", !.unlinkError = TRUE],
        endpoint |-> ep]

ServiceStart(staleUnlinkOk, listenOk, unlinkOk) ==
  /\ daemon.st = "starting"
  /\ LET r == main(daemon, endpoint, staleUnlinkOk, listenOk, unlinkOk)
     IN daemon' = r.daemon /\ endpoint' = r.endpoint
  /\ UNCHANGED << orchVars, outputs, chanVars, svcVars, segVars, logVars >>

\* process.on('SIGINT' | 'SIGTERM', () => cleanupAndExit(0))
ServiceSignal(sig, unlinkOk) ==
  /\ daemon.st = "listening"
  /\ LET r == cleanupAndExit([daemon EXCEPT !.signal = sig, !.cause = "signal"],
                             endpoint, "0", unlinkOk)
     IN daemon' = r.daemon /\ endpoint' = r.endpoint
  /\ UNCHANGED << orchVars, outputs, chanVars, svcVars, segVars, logVars >>

\* the service has not started; a previous run may have left its socket file
LifecycleInit ==
  /\ RunnerInit
  /\ ChannelIdle
  /\ conns = [c \in Conns |-> NoConnection]
  /\ daemon = Starting
  /\ endpoint \in {"absent", "stale"}

LifecycleNext ==
  \/ \E staleUnlinkOk, listenOk, unlinkOk \in BOOLEAN :
        ServiceStart(staleUnlinkOk, listenOk, unlinkOk)
  \/ \E sig \in {"SIGINT", "SIGTERM"}, unlinkOk \in BOOLEAN :
        ServiceSignal(sig, unlinkOk)
  \/ ServiceNext

LifecycleSpec == LifecycleInit /\ [][LifecycleNext]_vars

\* ======================================================================
\* The client's 'data' handler at the level of bytes.  The service writes
\* newline-terminated records, JSON.stringify leaves non-ASCII characters as
\* they are, and the socket delivers the bytes in chunks cut anywhere.
\* ======================================================================
\* Bytes (runs of ASCII bytes are one symbol; C3 A9 is the UTF-8 encoding of
\* one accented letter):
\*   "O"  {"event":"stdout","data":"        "Q"  "}
\*   "X"  {"event":"exit","code":3,"signal":null}
\*   "J"  text that is not JSON             "a"  an ASCII letter
Records ==
  { << "O", "a", "Q", NL >>, << "O", "C3", "A9", "Q", NL >>, << "X", NL >>,
    << NL >>, << "J", NL >> }

RECURSIVE Streams(_)
Streams(n) ==
  IF n = 0 THEN { << >> }
  ELSE Streams(n - 1) \cup { q \o r : q \in Streams(n - 1), r \in Records }

\* the stream cut after the positions of C
RECURSIVE SplitAt(_, _)
SplitAt(bytes, C) ==
  IF C = {} THEN << bytes >>
  ELSE LET m == CHOOSE x \in C : \A y \in C : y <= x
       IN Append(SplitAt(SubSeq(bytes, 1, m), C \ {m}),
                 SubSeq(bytes, m + 1, Len(bytes)))

Segmentations(bytes) ==
  { SplitAt(bytes, C) :
      C \in {D \in SUBSET (1..(Len(bytes) - 1)) : Cardinality(D) <= MaxCuts} }

\* chunk.toString('utf-8'): each chunk is decoded by itself, and a byte of an
\* incomplete sequence becomes the replacement character U+FFFD
RECURSIVE toStringUtf8(_)
toStringUtf8(bytes) ==
  IF bytes = << >> THEN << >>
  ELSE IF Head(bytes) = "C3" /\ Len(bytes) >= 2 /\ bytes[2] = "A9"
  THEN << "e-acute" >> \o toStringUtf8(SubSeq(bytes, 3, Len(bytes)))
  ELSE IF Head(bytes) \in {"C3", "A9"}
  THEN << "U+FFFD" >> \o toStringUtf8(Tail(bytes))
  ELSE << Head(bytes) >> \o toStringUtf8(Tail(bytes))

\* JSON.parse(line) in handleMessage: the event, or no event when it throws
parseLine(line) ==
  IF line = << "X" >> THEN Event("exit", "-", "3", "null")
  ELSE IF /\ Len(line) >= 2
          /\ line[1] = "O"
          /\ line[Len(line)] = "Q"
          /\ \A k \in 2..(Len(line) - 1) : line[k] \in {"a", "e-acute", "U+FFFD"}
  THEN Event("stdout", SubSeq(line, 2, Len(line) - 1), "-", "-")
  ELSE Event("-", "-", "-", "-")

\* the state of forwardCommand's closure and of the client process
NoReader == [buffer |-> << >>, read |-> << >>, written |-> << >>, exit |-> "-"]

\* handleMessage(line)
handleLine(r, line) ==
  LET ev == parseLine(line)
  IN IF ev.event = "-" THEN r
     ELSE IF ev.event = "exit"
     THEN [r EXCEPT !.read = Append(@, ev), !.exit = ExitStatus(ev)]
     ELSE [r EXCEPT !.read = Append(@, ev),
                    !.written = Append(@, Written(ev.event, ev.data, ev.event))]

\* the while loop of the 'data' handler; process.exit ends it
RECURSIVE drainLines(_)
drainLines(r) ==
  LET index == indexOfNL(r.buffer, 1)
  IN IF r.exit # "-" \/ index = 0 THEN r
     ELSE LET line == SubSeq(r.buffer, 1, index - 1)
              r1 == [r EXCEPT !.buffer = SubSeq(@, index + 1, Len(@))]
          IN drainLines(IF line = << >> THEN r1 ELSE handleLine(r1, line))

\* socket.on('data', ...) of forwardCommand
clientOnData(r, chunk) ==
  drainLines([r EXCEPT !.buffer = @ \o toStringUtf8(chunk)])

\* forwardCommand has sent the request; the service's response is under way
SegmentInit ==
  /\ RunnerInit
  /\ ServiceIdle
  /\ viaClient = TRUE
  /\ serviceUp = TRUE
  /\ proc = [st |-> "running", code |-> "-", sigterm |-> FALSE]
  /\ client = [pc |-> "forwarding", gotError |-> FALSE, read |-> << >>, written |-> << >>]
  /\ service = [conn |-> "open", accepts |-> TRUE, requestHandled |-> TRUE,
                lostWrites |-> 0]
  /\ wire = << >>
  /\ command = [st |-> "none", by |-> "-", code |-> "-"]
  /\ response \in Streams(MaxRecords) \ { << >> }
  /\ segments \in Segmentations(response)
  /\ clientBuffer = << >>

ClientData ==
  /\ client.pc = "forwarding"
  /\ segments # << >>
  /\ LET r == clientOnData([buffer |-> clientBuffer, read |-> client.read,
                            written |-> client.written, exit |-> "-"],
                           Head(segments))
     IN /\ clientBuffer' = r.buffer
        /\ client' = [client EXCEPT !.read = r.read, !.written = r.written,
                                    !.pc = IF r.exit # "-" THEN "exited" ELSE @]
        /\ proc' = IF r.exit # "-" THEN [proc EXCEPT !.st = "exited", !.code = r.exit]
                   ELSE proc
  /\ segments' = Tail(segments)
  /\ UNCHANGED << orchVars, outputs, viaClient, serviceUp, service, wire, command,
                  svcVars, lifeVars, logVars, response >>

SegmentSpec == SegmentInit /\ [][ClientData]_vars

\* ======================================================================
\* Properties of the orchestrator
\* ======================================================================
InFlight == {p \in DOMAIN pipelines : pipelines[p].pc # "done"}
Alive == {c \in DOMAIN children : children[c].st = "alive"}
Terminal == {"completed", "error", "stopped"}

\* C1: at every moment at most one runAuditPipeline task is in flight and at
\* most one stage child process is alive.
C1_SinglePipelineAndChild ==
  /\ Cardinality(InFlight) <= 1
  /\ Cardinality(Alive) <= 1

\* C2: the status moves only idle -> running, running -> completed, error or
\* stopped, and from one of these three back to running by startAudit alone;
\* it never moves between two of them and never returns to idle.  (A step of
\* startAudit() whose first spawn fails passes through running to error.)
C2_StatusTransitions ==
  [][ jobState'.status # jobState.status =>
        \/ /\ op'.name = "startAudit"
           /\ jobState.status \in {"idle"} \cup Terminal
           /\ jobState'.status \in {"running", "error"}
        \/ /\ op'.name # "startAudit"
           /\ jobState.status = "running"
           /\ jobState'.status \in Terminal ]_vars

\* C3: startAudit() called while the status is running changes no field of the
\* runner state and starts neither a pipeline nor a stage child.
C3_StartWhileRunningIsNoOp ==
  [][ op'.name = "startAudit" /\ jobState.status = "running" =>
        UNCHANGED << jobState, stopRequested, activeProcess, pipelinePromise,
                     pipelines, children >> ]_vars

C3_Witness ==
  /\ op.name = "startAudit"
  /\ op.pre = "running"
  /\ jobState.stage = "linux"

\* C4: once stopAudit() has set the status to stopped, the status stays stopped
\* until the next startAudit(): no unwinding pipeline moves it to error or
\* completed.
C4_StoppedUntilNextStart ==
  [][ jobState.status = "stopped" /\ jobState'.status # "stopped" =>
        op'.name = "startAudit" ]_vars

\* C6: stopAudit() called while the status is not running changes no field of
\* the runner state and signals no process.
C6_StopWhileNotRunningIsNoOp ==
  [][ op'.name = "stopAudit" /\ jobState.status # "running" =>
        UNCHANGED << jobState, stopRequested, activeProcess, pipelinePromise,
                     pipelines, children >> ]_vars

\* a stop() in status error while a stage child is alive and referenced
C6_Witness ==
  /\ op.name = "stopAudit"
  /\ op.pre = "error"
  /\ activeProcess \in Alive

\* C7: the 'close' (by the signal, code null) of a child that stopAudit() has
\* killed is never recorded as a failure: the unwinding leaves status and
\* lastRun.status stopped, sets no error and appends no log entry.
C7_KilledChildIsNotAFailure ==
  [][ /\ op'.name = "close"
      /\ op'.code = "null"
      /\ children[op'.child].signalled
      /\ children[op'.child].promise = "pending"
      => /\ jobState'.status = "stopped"
         /\ jobState'.lastRun.status = "stopped"
         /\ jobState'.error = NoError
         /\ jobState'.lastRun.error = NoError
         /\ jobState'.logs = jobState.logs ]_vars

\* C8: within one run each stage's command is spawned at most once, and after
\* a stage's command has failed (non-zero or null code, or spawn failure) no
\* later stage of that run is started.
C8_NoStageAfterFailure ==
  \A c \in DOMAIN children :
    /\ \A d \in DOMAIN children :
         (d # c /\ children[d].pipeline = children[c].pipeline)
           => children[d].stage # children[c].stage
    /\ children[c].promise = "failed" =>
         \A d \in DOMAIN children :
           children[d].pipeline = children[c].pipeline
             => children[d].stage <= children[c].stage

\* the second stage of a run has failed and its pipeline has unwound
C8_Witness ==
  \E c \in DOMAIN children :
    /\ children[c].promise = "failed"
    /\ children[c].stage = 2
    /\ children[c].st = "closed"
    /\ pipelines[children[c].pipeline].pc = "done"

\* C9: when a stage's command closes with a code other than 0 and no stop was
\* requested, the status is error, jobState.error and lastRun.error hold the
\* message naming the stage and the code, lastRun.status is error and the log
\* holds an error-level entry with that message.
C9_FailureIsRecorded ==
  [][ /\ op'.name = "close"
      /\ op'.code # "0"
      /\ ~stopRequested
      /\ children[op'.child].promise = "pending"
      => LET msg == StageFailure(stageMeta[children[op'.child].stage].id, op'.code)
         IN /\ jobState'.status = "error"
            /\ jobState'.error = msg
            /\ jobState'.lastRun.status = "error"
            /\ jobState'.lastRun.error = msg
            /\ \E i \in DOMAIN jobState'.logs :
                 /\ jobState'.logs[i].level = "error"
                 /\ jobState'.logs[i].detail = msg ]_vars

\* stage 2 exits with code 3: error recorded, stage 3 never spawned
C9_Witness ==
  /\ op.name = "close"
  /\ op.code = "3"
  /\ jobState.status = "error"
  /\ jobState.error = StageFailure("linux", "3")
  /\ \A c \in DOMAIN children : children[c].stage # 3

\* C24: the first stage of a run is spawned by startAudit(), and the command
\* of each later stage is spawned only in the step in which the child of the
\* stage declared just before it, of the same run, emits 'close' with code 0.
C24_StagesInOrder ==
  [][ \A c \in DOMAIN children' :
        c \notin DOMAIN children =>
          IF children'[c].stage = 1
          THEN op'.name = "startAudit"
          ELSE /\ op'.name = "close"
               /\ op'.code = "0"
               /\ children[op'.child].st = "alive"
               /\ children[op'.child].pipeline = children'[c].pipeline
               /\ children[op'.child].stage = children'[c].stage - 1 ]_vars

\* the third stage has been spawned on the close of the second
C24_Witness ==
  /\ op.name = "close"
  /\ op.code = "0"
  /\ Len(children) = 3
  /\ children[3].stage = 3
  /\ children[3].st = "alive"
  /\ children[2].promise = "resolved"

\* C25: the status becomes completed only in the step in which the last
\* stage's child closes with code 0, every declared stage of the current run
\* having been spawned and closed with code 0; that step appends a success
\* entry and calls invalidateScanCache() once, and no other step calls it.
C25_CompletedOnlyAfterAllStages ==
  [][ /\ (jobState'.status = "completed" /\ jobState.status # "completed") =>
            /\ op'.name = "close"
            /\ op'.code = "0"
            /\ \A i \in 1..NumStages :
                 \E c \in DOMAIN children' :
                   /\ children'[c].pipeline = Len(pipelines)
                   /\ children'[c].stage = i
                   /\ children'[c].promise = "resolved"
            /\ jobState'.logs # << >>
            /\ jobState'.logs[Len(jobState'.logs)].level = "success"
            /\ invalidations' = invalidations + 1
      /\ invalidations' # invalidations => jobState'.status = "completed" ]_vars

\* C26: startAudit() called while the status is not running resolves with a
\* snapshot taken before the first stage starts: status running, empty log,
\* no error, no stage, progress 0, the new startedAt and the previous lastRun;
\* lastRun changes only in a step that leaves the status terminal.
C26_StartReturnsFreshRun ==
  [][ /\ (op'.name = "startAudit" /\ jobState.status # "running") =>
            /\ returned' = [status |-> "running", stage |-> "null", progress |-> 0,
                            etaSeconds |-> -1, logs |-> << >>, startedAt |-> now,
                            error |-> NoError, lastRun |-> jobState.lastRun]
            /\ jobState'.startedAt = now
      /\ jobState'.lastRun # jobState.lastRun => jobState'.status \in Terminal ]_vars

\* a restart after a stop: the first stage is running, the snapshot has no stage
C26_Witness ==
  /\ op.name = "startAudit"
  /\ op.pre = "stopped"
  /\ returned.status = "running"
  /\ returned.lastRun.status = "stopped"
  /\ jobState.stage = "network"
  /\ jobState.logs # << >>

\* C19: the progress reported by getAuditStatus is 100 when the status is
\* completed and at most 99 in every other status, however long the active
\* stage has been running.
C19_ProgressBelow100UntilCompleted ==
  /\ jobState.status = "completed" => getAuditStatus.progress = 100
  /\ jobState.status # "completed" => getAuditStatus.progress <= 99

\* the last stage has been running for longer than its expected duration
C19_Witness ==
  /\ jobState.status = "running"
  /\ jobState.stage = "windows"
  /\ now - jobState.stageStartedAt >= 600000
  /\ getAuditStatus.progress = 99

\* C20: between one startAudit() and the next the reported progress never
\* decreases, across stage boundaries and the run's end included.
C20_ProgressNeverDecreases ==
  [][ op'.name # "startAudit" =>
        getAuditStatus'.progress >= getAuditStatus.progress ]_vars

\* C21: etaSeconds is null (-1) exactly when the status is not running or no
\* stage is active; otherwise it is the least whole number of seconds not
\* below the active stage's estimate minus its elapsed time (at least 0) plus
\* the estimates of all the stages declared after it.
C21_EtaOfRemainingStages ==
  returned.status # "-" =>
    LET active == jobState.status = "running" /\ jobState.stage # "null"
        later == IF jobState.stage = "network"
                 THEN stageMeta[2].etaSeconds + stageMeta[3].etaSeconds
                 ELSE IF jobState.stage = "linux" THEN stageMeta[3].etaSeconds
                 ELSE 0
        own == stageMeta[stageIndex(jobState.stage)].etaSeconds * 1000
                 - (now - jobState.stageStartedAt)
        remaining == (IF own > 0 THEN own ELSE 0) + later * 1000
    IN /\ (returned.etaSeconds = -1) <=> ~active
       /\ active => /\ returned.etaSeconds * 1000 >= remaining
                    /\ (returned.etaSeconds - 1) * 1000 < remaining

\* 240.5 s into the second stage: 239.5 + 600 is rounded up to 840
C21_Witness ==
  /\ returned.status = "running"
  /\ jobState.stage = "linux"
  /\ now - jobState.stageStartedAt = 240500
  /\ returned.etaSeconds = 840

\* C22: with the first stage done and the second active for 240 seconds,
\* getAuditStatus reports progress 62 and etaSeconds 840.
C22_ProgressAndEtaAt240s ==
  (returned.status = "running" /\ jobState.stage = "linux"
     /\ now - jobState.stageStartedAt = 240000) =>
    returned.progress = 62 /\ returned.etaSeconds = 840

\* C30: the weights of the declared stages sum to exactly 1 (100 hundredths).
C30_WeightsSumToOne ==
  /\ jobState.status \in {"idle", "running"} \cup Terminal
  /\ NumStages = 3
  /\ stageMeta[1].weight + stageMeta[2].weight + stageMeta[3].weight = 100

\* the last stage at its full estimated duration: every weight is counted
C30_Witness ==
  /\ returned.status = "running"
  /\ jobState.stage = "windows"
  /\ now - jobState.stageStartedAt = 600000
  /\ returned.progress = 99

\* C23: the log holds at most 200 entries, and they are the most recent
\* min(n, 200) of the n entries appended since the last reset, in the order
\* in which they were appended.
C23_LogKeepsMostRecent ==
  LET n == Len(appended)
      logs == jobState.logs
  IN /\ Len(logs) <= 200
     /\ Len(logs) = (IF n <= 200 THEN n ELSE 200)
     /\ \A i \in DOMAIN logs : logs[i] = appended[n - Len(logs) + i]

\* two entries have been evicted
C23_Witness ==
  /\ Len(appended) = 202
  /\ Len(jobState.logs) = 200
  /\ jobState.logs[1] = appended[3]
  /\ jobState.logs[200] = appended[202]

\* C27: getAuditStatus() changes nothing of the runner state, and no step
\* changes an array that a snapshot has handed out.
C27_SnapshotsAreNotMutated ==
  [][ /\ \A i \in DOMAIN handedOut : heap'[handedOut[i].ref] = handedOut[i].logs
      /\ op'.name = "getAuditStatus" =>
            UNCHANGED << jobState, stopRequested, activeProcess, pipelinePromise,
                         heap, logsRef >> ]_vars

\* a snapshot was handed out, then the log was appended to and reset
C27_Witness ==
  /\ handedOut # << >>
  /\ handedOut[1].ref = 2
  /\ handedOut[1].logs # << >>
  /\ logsRef = 4
  /\ heap[3] # heap[2]
  /\ heap[4] = << >>

\* ======================================================================
\* Properties of the execution channel
\* ======================================================================

\* C5: once stopAudit() has signalled the stage's process, a running command
\* of that stage eventually stops running, both when the orchestrator spawned
\* it and when it is a child of the service.
C5_StopEndsCommand ==
  (proc.sigterm /\ command.st = "running" /\ command.by \in {"orchestrator", "service"})
    ~> (command.st # "running")

\* C10: a client that has received an error event from the service terminates
\* with a non-zero exit status.
C10_ErrorEventFailsClient ==
  (client.pc = "exited" /\ client.gotError) => proc.code # "0"

\* ======================================================================
\* Properties of the service
\* ======================================================================
Terminals(c) ==
  {i \in DOMAIN conns[c].sent : conns[c].sent[i].ev.event \in {"exit", "error"}}

\* C11: for every request line that is not parsable JSON, or whose command is
\* missing, not an array or an empty array, the service writes exactly one
\* error event, ends the connection and spawns no process.
C11_MalformedRequestIsRejected ==
  \A c \in Conns :
    \A i \in DOMAIN conns[c].payloads :
      conns[c].payloads[i] # RunLs =>
        /\ Len(conns[c].sent) = 1
        /\ conns[c].sent[1].ev.event = "error"
        /\ conns[c].st = "ended"
        /\ conns[c].endedAt = 1
        /\ conns[c].spawns = 0
        /\ conns[c].child = "none"

\* one connection sent an empty command array, the other one unparsable text
C11_Witness ==
  /\ conns["A"].payloads = << << "{\"command\":[", "]}" >> >>
  /\ conns["A"].sent # << >>
  /\ conns["B"].payloads = << << "]}" >> >>
  /\ conns["B"].st = "ended"

\* C12: for a request whose command was spawned successfully the events
\* written on the connection are stdout/stderr events followed, once the child
\* has closed, by exactly one exit event with the child's own exit code and
\* signal, after which the connection is ended; nothing follows the exit event.
C12_OutputThenOneExit ==
  \A c \in Conns :
    conns[c].child \in {"running", "exited", "closed"} =>
      LET sent == conns[c].sent
      IN /\ \A i \in DOMAIN sent :
              \/ sent[i].ev.event \in {"stdout", "stderr"}
              \/ /\ i = Len(sent)
                 /\ conns[c].child = "closed"
                 /\ sent[i].ev.event = "exit"
         /\ conns[c].child = "closed" =>
              /\ sent # << >>
              /\ sent[Len(sent)].ev.event = "exit"
              /\ sent[Len(sent)].ev.code = conns[c].code
              /\ sent[Len(sent)].ev.signal = conns[c].signal
              /\ conns[c].st = "ended"
              /\ conns[c].endedAt = Len(sent)
         /\ conns[c].child # "closed" => conns[c].st = "open"

\* a child killed by a signal closed after one chunk of output
C12_Witness ==
  \E c \in Conns :
    /\ conns[c].child = "closed"
    /\ conns[c].code = "null"
    /\ Len(conns[c].sent) = 2
    /\ conns[c].sent[2].ev.signal = "SIGTERM"

\* C13: on every connection the service writes at most one terminal event
\* (exit or error) and attempts no write after it, also when the spawn fails.
C13_OneTerminalEvent ==
  \A c \in Conns :
    \A i \in Terminals(c) : i = Len(conns[c].sent)

\* C14: on each connection handleRequest is called at most once, with exactly
\* the text before the first newline of what the client sent, and at most one
\* child is spawned, however the text is chunked and whatever follows.
C14_FirstLineOnly ==
  \A c \in Conns :
    LET k == indexOfNL(conns[c].input, 1)
    IN /\ Len(conns[c].payloads) <= 1
       /\ conns[c].spawns <= 1
       /\ k = 0 => conns[c].payloads = << >>
       /\ k > 0 => conns[c].payloads = << SubSeq(conns[c].input, 1, k - 1) >>

\* one connection's request was spawned; the other sent two further lines
C14_Witness ==
  /\ conns["A"].payloads = << RunLs >>
  /\ conns["A"].spawns = 1
  /\ conns["B"].input = << "{}", NL, NL >>
  /\ Len(conns["B"].payloads) = 1

\* C15: every event a connection's child produces is written to that
\* connection's socket only; a well-formed request on connection B is spawned
\* and B gets its terminal event, also while the child of A never exits.
C15_ConnectionsAreIndependent ==
  /\ [](\A c \in Conns : \A i \in DOMAIN conns[c].sent : conns[c].sent[i].from = c)
  /\ [](conns["B"].payloads = << RunLs >> => conns["B"].spawns = 1)
  /\ (conns["B"].payloads = << RunLs >>) ~> (Terminals("B") # {})

\* B's child has closed while A's child is still running
C15_Witness ==
  /\ conns["A"].child = "running"
  /\ conns["B"].child = "closed"
  /\ Terminals("B") # {}

\* ======================================================================
\* Properties of the client
\* ======================================================================
IsOutput(ev) == ev.event \in {"stdout", "stderr"} /\ ev.data # "notAString"

FromOutput(w) == w.from \in {"stdout", "stderr"}

\* C16: on an exit event the client terminates with the event's numeric code,
\* with 128 when there is no numeric code but a signal, and with 0 when there
\* is neither; the stdout and stderr events read before it have been written
\* to the client's stdout and stderr, in the order they arrived.
C16_ExitEventEndsClient ==
  (client.pc = "exited" /\ client.read # << >>
     /\ client.read[Len(client.read)].event = "exit") =>
    LET ev == client.read[Len(client.read)]
        before == SelectSeq(SubSeq(client.read, 1, Len(client.read) - 1), IsOutput)
        out == SelectSeq(client.written, FromOutput)
    IN /\ proc.code = (IF ev.code \in {"0", "3"} THEN ev.code
                       ELSE IF ev.signal = "SIGTERM" THEN "128" ELSE "0")
       /\ Len(out) = Len(before)
       /\ \A i \in DOMAIN out :
            out[i].stream = before[i].event /\ out[i].data = before[i].data

\* exit by a signal, after one chunk on each stream
C16_Witness ==
  /\ client.pc = "exited"
  /\ proc.code = "128"
  /\ Len(client.read) = 3
  /\ client.written = << Written("stderr", "b", "stderr"), Written("stdout", "a", "stdout") >>

\* C17: when the service cannot be reached the client runs the command locally
\* and terminates with the result of the command itself: its exit code, its
\* ending by a signal (no exit code), or a failure when it cannot be spawned.
C17_FallbackSameResult ==
  (client.pc = "exited" /\ command.by = "client") =>
    IF command.code = "-" THEN proc.code # "0" ELSE proc.code = command.code

\* C18: a connection attempt of the client does not last forever: it
\* succeeds, fails or is abandoned.
C18_ConnectIsBounded ==
  (client.pc = "connecting") ~> (client.pc # "connecting")


\* ======================================================================
\* Properties of the service's life
\* ======================================================================
Accepted == {c \in Conns : conns[c].st # "none"}

\* C28 as stated: a service that received SIGINT or SIGTERM has exited with
\* code 0, its endpoint file no longer exists, and it accepts no connection
\* after that.
C28_SignalRemovesEndpoint ==
  [][ /\ daemon'.signal # "-" =>
           /\ daemon'.st = "exited"
           /\ daemon'.code = "0"
           /\ endpoint' = "absent"
      /\ daemon.signal # "-" => Accepted' = Accepted ]_vars

\* C28, amended: a service that received SIGINT or SIGTERM has exited with
\* code 0 and accepts no connection after that; its endpoint file no longer
\* exists unless the removal failed, in which case the file is left behind
\* and the exit code is still 0.
C28_SignalExitsAfterCleanupAttempt ==
  [][ /\ daemon'.signal # "-" =>
           /\ daemon'.st = "exited"
           /\ daemon'.code = "0"
           /\ daemon'.cause = "signal"
           /\ IF daemon'.unlinkError THEN endpoint' = "bound"
                                     ELSE endpoint' = "absent"
      /\ daemon.signal # "-" => Accepted' = Accepted /\ daemon' = daemon ]_vars

C28_Witness ==
  /\ daemon.signal = "SIGTERM"
  /\ daemon.st = "exited"
  /\ ~daemon.unlinkError
  /\ endpoint = "absent"
  /\ Accepted = {"A"}
  /\ conns["A"].child = "exited"

\* C29: when the service starts and finds an endpoint file, it removes the
\* file before it binds (the bind never meets the old file); if the removal
\* fails the service exits with code 1, has never listened, and no connection
\* is ever accepted.
C29_StaleEndpointAtStartup ==
  [][ /\ (daemon.st = "starting" /\ endpoint = "stale" /\ daemon'.st # "starting") =>
           IF daemon'.unlinkError /\ daemon'.cause = "stale-unlink"
           THEN /\ daemon'.st = "exited"
                /\ daemon'.code = "1"
                /\ ~daemon'.listened
                /\ endpoint' = "stale"
           ELSE /\ daemon'.cause # "EADDRINUSE"
                /\ endpoint' # "stale"
                /\ daemon'.st = "listening" => endpoint' = "bound"
      /\ daemon.cause = "stale-unlink" =>
           /\ daemon' = daemon
           /\ Accepted' = {} ]_vars

C29_Witness ==
  /\ daemon.cause = "stale-unlink"
  /\ daemon.st = "exited"
  /\ daemon.code = "1"
  /\ endpoint = "stale"
  /\ Accepted = {}


\* ======================================================================
\* Properties of the output handlers
\* ======================================================================
\* the lines of a chunk that are not blank, trimmed, in their order
Kept(lines) == SelectSeq(lines, LAMBDA l : l \notin {"", " "})

Trimmed(l) == IF l = "b " THEN "b" ELSE l

\* C31: an output chunk of a stage's child appends, after the entries already
\* in the log, exactly one entry per line that is not blank, in the order of
\* the lines, with the trimmed line as its message, level 'info' for stdout
\* and 'error' for stderr, tagged with the child's stage; no entry of the log
\* has an empty message.
C31_OutputLinesBecomeEntries ==
  [][ op'.name = "data" =>
        LET kept == Kept(op'.lines)
            id == stageMeta[children[op'.child].stage].id
            level == IF op'.stream = "stdout" THEN "info" ELSE "error"
        IN /\ Len(jobState'.logs) = Len(jobState.logs) + Len(kept)
           /\ SubSeq(jobState'.logs, 1, Len(jobState.logs)) = jobState.logs
           /\ \A k \in 1..Len(kept) :
                LET e == jobState'.logs[Len(jobState.logs) + k]
                IN /\ e.level = level
                   /\ e.stage = id
                   /\ e.text = "line"
                   /\ e.detail = Text(Trimmed(kept[k]))
           /\ \A k \in DOMAIN jobState'.logs :
                jobState'.logs[k].detail.kind = "text" =>
                  jobState'.logs[k].detail.code \notin {"", " "} ]_vars

C31_Witness ==
  /\ op.name = "data"
  /\ op.stream = "stderr"
  /\ op.lines = << " ", "b " >>
  /\ jobState.stage = "linux"
  /\ outputs = 2
  /\ Len(jobState.logs) = 5
  /\ jobState.logs[4].level = "info"
  /\ jobState.logs[5] = LogEntry("error", "line", Text("b"), "linux", 1)


\* ======================================================================
\* Properties of the client's reading of the byte stream
\* ======================================================================
\* what the client does with the whole response delivered as one chunk
Unsegmented == clientOnData(NoReader, response)

\* C32: once the client has received the whole response, or has exited, the
\* events it handled, the output it wrote and its exit status are those it
\* has when the same bytes arrive as a single chunk, however the bytes were
\* cut into chunks.
C32_SegmentationIndependent ==
  (segments = << >> \/ client.pc = "exited") =>
    /\ client.read = Unsegmented.read
    /\ client.written = Unsegmented.written
    /\ (IF client.pc = "exited" THEN proc.code ELSE "-") = Unsegmented.exit


\* C33: a client that has terminated with exit status 0 has received an exit
\* event with code 0; a connection that ends after an error event only, or
\* with no event at all, does not make it terminate with status 0.  (An exit
\* event with neither code nor signal, which the service never writes, is
\* counted with the exit events of code 0.)
C33_SuccessNeedsExitZero ==
  (client.pc = "exited" /\ proc.code = "0") =>
    \E k \in DOMAIN client.read :
       /\ client.read[k].event = "exit"
       /\ \/ client.read[k].code = "0"
          \/ client.read[k].code = "null" /\ client.read[k].signal = "null"


\* C34: whatever first line a client has sent, the service process is still
\* running and listening.
C34_NoRequestStopsService ==
  (\E c \in Conns : conns[c].payloads # << >>) => daemon.st = "listening"


\* ======================================================================
\* Further properties of the orchestrator
\* ======================================================================
\* the run started by the last startAudit()
CurrentRun == Len(pipelines)

\* C35: whenever a stage child is alive and the status is running,
\* activeProcess refers to a live child of the current run.
C35_ActiveProcessIsCurrentChild ==
  (jobState.status = "running" /\ Alive # {}) =>
    /\ activeProcess # 0
    /\ children[activeProcess].st = "alive"
    /\ children[activeProcess].pipeline = CurrentRun

\* C36: every entry of jobState.logs was appended by the current run: by
\* its pipeline, by a child of its pipeline, or by the stopAudit() that
\* stopped it.
C36_LogIsOfCurrentRun ==
  \A k \in DOMAIN jobState.logs : jobState.logs[k].run = CurrentRun

\* C37: whenever the status is not running, stage is null and stageStartedAt
\* is undefined.
C37_StageOnlyWhileRunning ==
  jobState.status # "running" =>
    jobState.stage = "null" /\ jobState.stageStartedAt = 0


\* C38: whenever the status is completed, error or stopped, lastRun is
\* present with the same status and the startedAt of the job state, its
\* finishedAt is not before its startedAt, its duration is their difference,
\* and it carries an error only when its status is error.
C38_LastRunMatchesStatus ==
  jobState.status \in Terminal =>
    /\ jobState.lastRun # NoLastRun
    /\ jobState.lastRun.status = jobState.status
    /\ jobState.lastRun.startedAt = jobState.startedAt
    /\ jobState.lastRun.finishedAt >= jobState.lastRun.startedAt
    /\ jobState.lastRun.durationMs =
         jobState.lastRun.finishedAt - jobState.lastRun.startedAt
    /\ jobState.lastRun.error # NoError => jobState.lastRun.status = "error"

\* a run failed five minutes after the one before it was stopped
C38_Witness ==
  /\ jobState.status = "error"
  /\ jobState.lastRun.status = "error"
  /\ jobState.lastRun.error.kind = "stageFailed"
  /\ jobState.lastRun.finishedAt > jobState.lastRun.startedAt
  /\ jobState.lastRun.startedAt > 1


\* C39: when every spawned child eventually emits 'close', a running status
\* is eventually left; the step in which a pipeline unwinds leaves
\* stopRequested false, activeProcess null and pipelinePromise null, and they
\* are so whenever no pipeline is in flight.
C39_RunsEndAndRelease ==
  /\ (jobState.status = "running") ~> (jobState.status # "running")
  /\ [][ (\E p \in DOMAIN pipelines : pipelines[p].pc # "done" /\ pipelines'[p].pc = "done") =>
           stopRequested' = FALSE /\ activeProcess' = 0 /\ pipelinePromise' = 0 ]_vars
  /\ [](InFlight = {} =>
           stopRequested = FALSE /\ activeProcess = 0 /\ pipelinePromise = 0)

\* a run went through its three stages and completed
C39_Witness ==
  /\ jobState.status = "completed"
  /\ InFlight = {}
  /\ Len(children) = 3
  /\ \A c \in DOMAIN children : children[c].st = "closed"
  /\ pipelinePromise = 0
  /\ op.name = "close"

====
